---- MODULE Spec2Model ----
(***************************************************************************)
(* A model of cross-storage: the hub (CrossStorageHub, types.ts) that owns *)
(* localStorage and answers requests posted to it, and the client          *)
(* (CrossStorageClient) that talks to it through postMessage.              *)
(*                                                                         *)
(* JavaScript values are records [t, v]: t is the type tag and v the text  *)
(* String(value) yields, so that the conversions the code performs         *)
(* (String() inside Storage.setItem, JSON.stringify dropping undefined     *)
(* fields, template strings) are computed and not assumed.                 *)
(***************************************************************************)
EXTENDS Integers, Sequences, FiniteSets, TLC

\* ------------------------------------------------------------------ bounds
\* longest permission list handed to Hub.init
MaxRules == 2

\* --------------------------------------------------------- protocol signals
EVENT_UNAVAILABLE == "cross-storage:unavailable"
EVENT_READY == "cross-storage:ready"
EVENT_POLL == "cross-storage:poll"
EVENT_CHANGE == "cross-storage:change"

allowedMethods == {"set", "get", "del", "getKeys", "clear"}

\* -------------------------------------------------------- JavaScript values
Str(s) == [t |-> "str", v |-> s]
Num(s) == [t |-> "num", v |-> s]
Null == [t |-> "null", v |-> "null"]
Undefined == [t |-> "undefined", v |-> "undefined"]

RECURSIVE Join(_)
\* Array.prototype.join(","), which String(array) uses
Join(items) ==
  IF Len(items) = 0 THEN ""
  ELSE IF Len(items) = 1 THEN items[1]
  ELSE items[1] \o "," \o Join(Tail(items))

\* an array of strings
Arr(items) == [t |-> "arr", v |-> Join(items), items |-> items]
\* a plain object; f maps its own property names to values
Obj(fields) == [t |-> "obj", v |-> "[object Object]", f |-> fields]

\* String(x)
JsString(x) == x.v

\* !!x
Truthy(x) ==
  ~ \/ x.t \in {"null", "undefined"}
    \/ (x.t = "str" /\ x.v = "")
    \/ (x.t = "num" /\ x.v = "0")

\* x.name, for x neither null nor undefined
Prop(x, name) ==
  IF x.t = "obj" /\ name \in DOMAIN x.f THEN x.f[name] ELSE Undefined

\* JSON.stringify(object) then JSON.parse: properties holding undefined are gone
JsonFields(fields) ==
  [n \in {m \in DOMAIN fields : fields[m] # Undefined} |-> fields[n]]

\* message.data: text that is not JSON, or the JSON text of a value
Text(s) == [kind |-> "text", text |-> s]
Json(val) == [kind |-> "json", val |-> val]
JSONstringify(fields) == Json(Obj(JsonFields(fields)))

\* ----------------------------------------------------------------- origins
OriginA == "https://a.example"
OriginB == "https://b.example"
\* what MessageEvent.origin can be: a file:// sender is reported as "null"
SenderOrigins == {OriginA, OriginB, "null"}

\* postMessage returns the string "null" as the origin for "file://"
\* a listener that takes every sender for the hub
OriginUnchecked(mo) == "https://hub.example"

NormOrigin(mo) == IF mo = "null" THEN "file://" ELSE mo

\* postMessage requires that the target origin be set to "*" for "file://"
ResponseTarget(origin) == IF origin = "file://" THEN "*" ELSE origin

\* window.postMessage rejects a target origin that is no URL, "*" or "/"
ValidTarget(target) == target # "null"

\* -------------------------------------------------------------- permissions
StringOrigin(s) == [kind |-> "string", pat |-> s]
\* a RegExp of the form /^prefix/ (no g or y flag)
RegExpOrigin(prefix) == [kind |-> "regexp", pat |-> prefix]
AllowAll == [all |-> TRUE, actions |-> {}]
Allow(actions) == [all |-> FALSE, actions |-> actions]

Rules ==
  { [origin |-> StringOrigin(OriginA), allow |-> Allow({})],
    [origin |-> StringOrigin(OriginA), allow |-> AllowAll],
    [origin |-> StringOrigin(OriginA), allow |-> Allow({"get", "set"})],
    [origin |-> RegExpOrigin("https://"), allow |-> Allow({"get"})],
    [origin |-> StringOrigin("file://"), allow |-> AllowAll] }

RuleLists == UNION {[1..n -> Rules] : n \in 0..MaxRules}

\* RegExp.prototype.test for /^prefix/
RegExpTest(prefix, s) ==
  Len(s) >= Len(prefix) /\ SubSeq(s, 1, Len(prefix)) = prefix

\* entry.origin equals (string) or matches (RegExp) the origin
OriginMatches(entry, origin) ==
  IF entry.origin.kind = "string"
  THEN origin = entry.origin.pat
  ELSE RegExpTest(entry.origin.pat, origin)

\* the callback of permissions.some
EntryPermits(entry, origin, method) ==
  /\ OriginMatches(entry, origin)
  /\ (entry.allow.all \/ method \in entry.allow.actions)

\* a hub that lets the first matching entry decide
FirstMatchPermitted(perms, origin, method) ==
  \E i \in 1..Len(perms) :
    /\ OriginMatches(perms[i], origin)
    /\ \A j \in 1..(i - 1) : ~OriginMatches(perms[j], origin)
    /\ (perms[i].allow.all \/ method \in perms[i].allow.actions)

\* a hub that looks at the origin alone and never at the allow-set
OriginOnlyPermitted(perms, origin, method) ==
  \E i \in 1..Len(perms) : OriginMatches(perms[i], origin)

\* CrossStorageHub._permitted
Permitted(perms, origin, method) ==
  \E i \in 1..Len(perms) : EntryPermits(perms[i], origin, method)

\* ------------------------------------------------- storage engine (Storage)
Keys == {"x", "y"}
\* the keys other documents may also write; "" and "*" are legal Storage keys
EventKeys == {"x", "y", "*", ""}
\* the order in which Storage.key(i) enumerates
KeyOrder == <<"", "*", "x", "y">>
Range(seq) == {seq[i] : i \in 1..Len(seq)}

EmptyStorage == [k \in {} |-> ""]
getItem(st, k) == IF k \in DOMAIN st THEN Str(st[k]) ELSE Null
setItem(st, k, v) ==
  [x \in (DOMAIN st) \cup {k} |-> IF x = k THEN v ELSE st[x]]
removeItem(st, k) == [x \in (DOMAIN st) \ {k} |-> st[x]]

\* ------------------------------------------- the hub's storage functions
\* a set that keeps an item already stored
setIfAbsent(st, key, value) ==
  IF JsString(key) \in DOMAIN st THEN st
  ELSE setItem(st, JsString(key), JsString(value))

\* set(key, value): Storage.setItem takes String(key) and String(value)
set(st, key, value) == setItem(st, JsString(key), JsString(value))

get(st, key) ==
  IF key.t = "arr"
  THEN Obj([k \in Range(key.items) |-> getItem(st, k)])
  ELSE getItem(st, JsString(key))

\* a del without the Array.isArray branch
delSingleKey(st, key) == removeItem(st, JsString(key))

del(st, key) ==
  IF key.t = "arr"
  THEN [x \in (DOMAIN st) \ Range(key.items) |-> st[x]]
  ELSE removeItem(st, JsString(key))

clear(st) == EmptyStorage

getKeys(st) == Arr(SelectSeq(KeyOrder, LAMBDA k : k \in DOMAIN st))

\* the switch of _onListener: the storage afterwards and the value of `result`
Execute(method, request, st) ==
  CASE method = "get" ->
         [st |-> st, result |-> get(st, Prop(request, "key"))]
    [] method = "set" ->
         [st |-> set(st, Prop(request, "key"), Prop(request, "value")),
          result |-> Undefined]
    [] method = "del" ->
         [st |-> del(st, Prop(request, "key")), result |-> Undefined]
    [] method = "clear" -> [st |-> clear(st), result |-> Undefined]
    [] method = "getKeys" -> [st |-> st, result |-> getKeys(st)]

\* ------------------------------------------------------------- hub replies
\* one window.parent.postMessage(data, target)
Posted(data, target) == [data |-> data, target |-> target]

\* a _response that writes the id into a template string
ResponseStringId(origin, request, error, result) ==
  Posted(JSONstringify([id |-> Str(JsString(Prop(request, "id"))),
                        method |-> Prop(request, "method"),
                        error |-> error,
                        result |-> result]),
         ResponseTarget(origin))

\* a _response that leaves the error out
ResponseWithoutError(origin, request, error, result) ==
  Posted(JSONstringify([id |-> Prop(request, "id"),
                        method |-> Prop(request, "method"),
                        result |-> result]),
         ResponseTarget(origin))

\* CrossStorageHub._response: the message it posts
Response(origin, request, error, result) ==
  Posted(JSONstringify([id |-> Prop(request, "id"),
                        method |-> Prop(request, "method"),
                        error |-> error,
                        result |-> result]),
         ResponseTarget(origin))

InvalidMethodError(method) ==
  Str("Invalid method " \o JsString(method)
      \o ", allowed methods are set, get, del, getKeys, clear")

InvalidPermissionsError(method) ==
  Str("Invalid permissions for " \o JsString(method))

\* what one run of a handler does: the storage afterwards, the messages posted
\* to window.parent, and whether an exception left the handler
Outcome(st, sent, threw) == [st |-> st, sent |-> sent, threw |-> threw]

\* window.parent.postMessage(data, target) as a handler's last statement
PostAndReturn(st, data, target) ==
  IF ValidTarget(target)
  THEN Outcome(st, <<Posted(data, target)>>, FALSE)
  ELSE Outcome(st, <<>>, TRUE)

\* the storage engine does not throw
NoFault == ""
\* the messages of the exceptions the engine throws
FaultMessages == {"QuotaExceededError"}

\* CrossStorageHub._onListener on a MessageEvent with origin mo and data `data`;
\* fault is the message of the exception the storage engine throws, if any
OnListener(mo, data, st, perms, fault) ==
  LET origin == NormOrigin(mo) IN
  IF data = Text(EVENT_POLL) THEN PostAndReturn(st, Text(EVENT_READY), mo)
  ELSE IF data = Text(EVENT_READY) THEN Outcome(st, <<>>, FALSE)
  ELSE IF data.kind = "text" THEN Outcome(st, <<>>, FALSE)
  ELSE LET request == data.val IN
    IF request.t \in {"null", "undefined"} THEN Outcome(st, <<>>, FALSE)
    ELSE IF ~Truthy(Prop(request, "id")) \/ ~Truthy(Prop(request, "method"))
    THEN Outcome(st, <<>>, FALSE)
    ELSE LET method == Prop(request, "method") IN
      IF ~(method.t = "str" /\ method.v \in allowedMethods)
      THEN Outcome(st, <<Response(origin, request,
                                   InvalidMethodError(method), Null)>>, FALSE)
      ELSE IF ~Permitted(perms, origin, method.v)
      THEN Outcome(st, <<Response(origin, request,
                                   InvalidPermissionsError(method), Null)>>,
                   FALSE)
      ELSE IF fault # NoFault
      THEN Outcome(st, <<Response(origin, request, Str(fault), Null)>>, FALSE)
      ELSE LET done == Execute(method.v, request, st) IN
        Outcome(done.st,
                <<Response(origin, request, Undefined, done.result)>>, FALSE)

\* ------------------------------------------------------- storage watching
\* the `watch` option of Hub.init
WatchOff == [mode |-> "off", keys |-> {}]
WatchAll == [mode |-> "all", keys |-> {}]
WatchOnly(keys) == [mode |-> "keys", keys |-> keys]
WatchOptions == {WatchOff, WatchAll, WatchOnly({"x"})}

ChangeMessage(suffix) == Text(EVENT_CHANGE \o ":" \o suffix)

\* CrossStorageHub._onStorage on a StorageEvent; key is a string or null
OnStorage(sameArea, key, watch) ==
  IF ~sameArea THEN <<>>
  ELSE IF ~Truthy(key) THEN <<Posted(ChangeMessage("*"), "*")>>
  ELSE IF watch.mode = "keys" /\ key.v \notin watch.keys THEN <<>>
  ELSE <<Posted(ChangeMessage(key.v), "*")>>

\* ===================================================================== state
VARIABLES
  available,     \* hub: the module-level `available` (localStorage usable)
  initDone,      \* hub: Hub.init has run
  listening,     \* hub: _onListener is registered for "message"
  watching,      \* hub: _onStorage is registered for "storage"
  permissions,   \* hub: this.permissions
  watchKeys,     \* hub: this.watchKeys
  storage,       \* window.localStorage of the hub's origin: key -> string
  hubLast        \* history: the last hub handler run and what it posted

hubVars ==
  <<available, initDone, listening, watching, permissions, watchKeys,
    storage, hubLast>>

VARIABLES
  thisOrigin,     \* client: this.origin, the hub's origin
  connected,      \* client: this.connected
  closed,         \* client: this.closed
  count,          \* client: this.count
  frameOwn,       \* client: the constructor created the iframe itself
  frameInDom,     \* document.getElementById(this.frameId) finds the iframe
  polling,        \* client: the interval of _poll is running
  listenerOn,     \* client: _onListener is registered for "message"
  requests,       \* client: this._requests, id -> the pending callback
  timers,         \* the request ids whose setTimeout is pending
  connects,       \* client: this._connects, the connect() callers queued
  connectTimers,  \* the connect() callers whose setTimeout is pending
  connectCalls,   \* history: the number of connect() calls so far
  connectLog,     \* history: per connect() call, its resolve/reject calls
  watchers,       \* client: this._watchers, the callbacks in order
  handles,        \* the unsubscribe functions returned: the callback each holds
  regs,           \* history: for each entry of _watchers, the watch() call it is of
  unsubscribed,   \* history: the unsubscribe functions invoked so far
  settled,        \* history: per request id, the resolve/reject calls made
  clientLast      \* history: the last client step and what it posted / called

clientVars ==
  <<thisOrigin, connected, closed, count, frameOwn, frameInDom, polling,
    listenerOn, requests, timers, connects, connectTimers, connectCalls,
    connectLog, watchers, handles, regs, unsubscribed, settled, clientLast>>

VARIABLES
  toHub,          \* messages posted to the hub window, not yet delivered
  toClient,       \* messages posted to the client window, not yet delivered
  issued,         \* history: per request id, the arguments of the call
  lastWrite,      \* history: per key, who changed it last in the storage
  getSaw,         \* history: per get request, lastWrite of its key when run
  lastCause       \* history: the storage event behind the last message
                  \*          the client received

chanVars == <<toHub, toClient, issued, lastWrite, getSaw, lastCause>>
vars == <<hubVars, clientVars, chanVars>>

\* no storage event is behind a message
NoCause == [kind |-> "none", key |-> ""]

NoTraffic ==
  /\ toHub = <<>>
  /\ toClient = <<>>
  /\ issued = [k \in {} |-> 0]
  /\ lastWrite = [k \in {} |-> 0]
  /\ getSaw = [k \in {} |-> 0]
  /\ lastCause = NoCause

\* the record kept of one handler run
HubRun(ev, origin, data, key, fault, before, sent, threw) ==
  [ev |-> ev, origin |-> origin, data |-> data, key |-> key, fault |-> fault,
   before |-> before, sent |-> sent, threw |-> threw]

NoRun == HubRun("none", "", Text(""), Null, NoFault, EmptyStorage, <<>>, FALSE)

InitialStorages == {EmptyStorage, [k \in {"y"} |-> "old"]}

\* the hub document is loaded and Hub.init has not run yet
HubLoaded(usable, items) ==
  /\ available = usable
  /\ initDone = FALSE
  /\ listening = FALSE
  /\ watching = FALSE
  /\ permissions = <<>>
  /\ watchKeys = WatchOff
  /\ storage = items
  /\ hubLast = NoRun

HubInitState ==
  \E usable \in BOOLEAN, items \in InitialStorages : HubLoaded(usable, items)

\* an _init whose unavailable branch does not return
HubInitNoReturn(perms, keys) ==
  /\ ~initDone
  /\ initDone' = TRUE
  /\ permissions' = perms
  /\ listening' = TRUE
  /\ hubLast' = HubRun("init", "", Text(""), Null, NoFault, storage,
                       (IF available THEN <<>>
                        ELSE <<Posted(Text(EVENT_UNAVAILABLE), "*")>>)
                       \o <<Posted(Text(EVENT_READY), "*")>>, FALSE)
  /\ IF keys.mode # "off"
     THEN watchKeys' = keys /\ watching' = TRUE
     ELSE UNCHANGED <<watchKeys, watching>>
  /\ UNCHANGED <<available, storage>>

\* CrossStorageHub._init(permissions, keys), called once through Hub.init
HubInit(perms, keys) ==
  /\ ~initDone
  /\ initDone' = TRUE
  /\ IF ~available
     THEN /\ hubLast' = HubRun("init", "", Text(""), Null, NoFault, storage,
                               <<Posted(Text(EVENT_UNAVAILABLE), "*")>>, FALSE)
          /\ UNCHANGED <<permissions, listening, watching, watchKeys>>
     ELSE /\ permissions' = perms
          /\ listening' = TRUE
          /\ hubLast' = HubRun("init", "", Text(""), Null, NoFault, storage,
                               <<Posted(Text(EVENT_READY), "*")>>, FALSE)
          /\ IF keys.mode # "off"
             THEN watchKeys' = keys /\ watching' = TRUE
             ELSE UNCHANGED <<watchKeys, watching>>
  /\ UNCHANGED <<available, storage>>

\* a "message" event reaches the hub window: _onListener runs if registered
HubOnMessage(mo, data, fault) ==
  /\ listening
  /\ LET out == OnListener(mo, data, storage, permissions, fault) IN
       /\ storage' = out.st
       /\ hubLast' = HubRun("message", mo, data, Null, fault, storage,
                            out.sent, out.threw)
  /\ UNCHANGED <<available, initDone, listening, watching, permissions,
                 watchKeys>>

\* a "storage" event reaches the hub window: _onStorage runs if registered
HubOnStorageEvent(sameArea, key) ==
  hubLast' = HubRun(IF sameArea THEN "storage" ELSE "storage-elsewhere",
                    "", Text(""), key, NoFault, storage',
                    IF watching THEN OnStorage(sameArea, key, watchKeys)
                    ELSE <<>>,
                    FALSE)

\* ----------------------------------------- other documents of the hub's origin
\* Storage fires "storage" in every other document, and only for a real change
OtherSetItem(k, v) ==
  /\ getItem(storage, k) # Str(v)
  /\ storage' = setItem(storage, k, v)
  /\ HubOnStorageEvent(TRUE, Str(k))
  /\ UNCHANGED <<available, initDone, listening, watching, permissions,
                 watchKeys>>

OtherRemoveItem(k) ==
  /\ k \in DOMAIN storage
  /\ storage' = removeItem(storage, k)
  /\ HubOnStorageEvent(TRUE, Str(k))
  /\ UNCHANGED <<available, initDone, listening, watching, permissions,
                 watchKeys>>

OtherClear ==
  /\ DOMAIN storage # {}
  /\ storage' = EmptyStorage
  /\ HubOnStorageEvent(TRUE, Null)
  /\ UNCHANGED <<available, initDone, listening, watching, permissions,
                 watchKeys>>

\* a change of sessionStorage: another storage area
OtherAreaChange(k) ==
  /\ storage' = storage
  /\ HubOnStorageEvent(FALSE, Str(k))
  /\ UNCHANGED <<available, initDone, listening, watching, permissions,
                 watchKeys>>

\* ------------------------------------------------ what is posted to the hub
\* the values a caller passes to set()
Values == {Str("1"), Num("1"), Null, Undefined}
\* the key argument of get() and del()
KeyArgs == {Str("x"), Str("y"), Arr(<<"x", "y">>)}

\* the requests posted to the hub: every method, single and array keys,
\* string and non-string values, and a method that does not exist
RequestFields ==
  LET id == Str("c1:1") IN
  {[id |-> id, method |-> Str(m)] : m \in {"getKeys", "clear", "bogus"}}
  \cup {[id |-> id, method |-> Str(m), key |-> k] :
          m \in {"get", "del"}, k \in KeyArgs}
  \cup {[id |-> Num("7"), method |-> Str("set"), key |-> Str("x"),
          value |-> v] : v \in {Str("1"), Undefined}}

\* payloads _onListener drops: not JSON, not an object, no id, no method
Malformed ==
  { Text("hello"), Json(Null), Json(Num("5")),
    JSONstringify([method |-> Str("clear")]),
    JSONstringify([id |-> Str(""), method |-> Str("clear")]),
    JSONstringify([id |-> Num("0"), method |-> Str("clear")]),
    JSONstringify([id |-> Str("c1:1"), key |-> Str("x")]) }

HubInputs ==
  {Text(EVENT_POLL), Text(EVENT_READY)} \cup Malformed
  \cup {JSONstringify(f) : f \in RequestFields}

\* Storage.setItem is the call that throws (QuotaExceededError)
FaultsFor(data) ==
  IF data.kind = "json" /\ Prop(data.val, "method") = Str("set")
  THEN {NoFault} \cup FaultMessages
  ELSE {NoFault}

\* ============================================================ hub: C1 .. C4
\* --- vocabulary of the claims about one run of _onListener
\* the payload parses as an object with a non-empty id and method
IsRequest(data) ==
  /\ data.kind = "json"
  /\ data.val.t = "obj"
  /\ Truthy(Prop(data.val, "id"))
  /\ Truthy(Prop(data.val, "method"))

\* ... whose method is one of the five actions
IsActionRequest(data) ==
  /\ IsRequest(data)
  /\ Prop(data.val, "method").t = "str"
  /\ Prop(data.val, "method").v \in allowedMethods

\* the last handler run handled a request for an action
HandledAction == hubLast.ev = "message" /\ IsActionRequest(hubLast.data)
LastOrigin == NormOrigin(hubLast.origin)
LastRequest == hubLast.data.val
LastMethod == Prop(hubLast.data.val, "method").v

\* the Responses among the messages a run posted: the JSON ones
Responses(sent) == SelectSeq(sent, LAMBDA m : m.data.kind = "json")
CarriesError(m) == "error" \in DOMAIN m.data.val.f
CarriesResult(m) == "result" \in DOMAIN m.data.val.f

RuleAllows(rule, method) == rule.allow.all \/ method \in rule.allow.actions
\* the rules whose origin matcher matches the sender
MatchingRules(origin) ==
  {i \in 1..Len(permissions) : OriginMatches(permissions[i], origin)}
SomeRuleGrants(origin, method) ==
  \E i \in MatchingRules(origin) : RuleAllows(permissions[i], method)
FirstRuleGrants(origin, method) ==
  /\ MatchingRules(origin) # {}
  /\ LET first == CHOOSE i \in MatchingRules(origin) :
                    \A j \in MatchingRules(origin) : i <= j
     IN RuleAllows(permissions[first], method)

Denied ==
  /\ Len(hubLast.sent) = 1
  /\ CarriesError(hubLast.sent[1])
  /\ storage = hubLast.before

\* C1 as stated: the first rule whose origin matcher matches the sender decides
\* the request; when it does not allow the action the request is denied with an
\* error response, whatever later rules say.
C1_FirstMatchWins ==
  (HandledAction /\ hubLast.fault = NoFault)
    => (Denied <=> ~FirstRuleGrants(LastOrigin, LastMethod))

\* C1 amended: a request is denied with an error response exactly when no rule
\* both matches the sender origin and allows the action (any matching rule may
\* grant it, in whatever position); with a first rule allowing nothing and a
\* later rule for the same origin allowing everything the request is granted.
C1_AnyMatchGrants ==
  (HandledAction /\ hubLast.fault = NoFault)
    => /\ Denied <=> ~SomeRuleGrants(LastOrigin, LastMethod)
       /\ (/\ Len(permissions) = 2
           /\ permissions[1] = [origin |-> StringOrigin(OriginA),
                                allow |-> Allow({})]
           /\ permissions[2] = [origin |-> StringOrigin(OriginA),
                                allow |-> AllowAll]
           /\ LastOrigin = OriginA)
          => (Len(hubLast.sent) = 1 /\ ~CarriesError(hubLast.sent[1]))

\* C1 witness: the scenario of the claim has run: first rule allow [], second
\* rule for the same origin allow "*", and a del from that origin was answered.
C1_Witness ==
  /\ HandledAction
  /\ hubLast.fault = NoFault
  /\ LastOrigin = OriginA
  /\ LastMethod = "del"
  /\ "x" \in DOMAIN hubLast.before
  /\ permissions = <<[origin |-> StringOrigin(OriginA), allow |-> Allow({})],
                     [origin |-> StringOrigin(OriginA), allow |-> AllowAll]>>
  /\ Len(hubLast.sent) = 1

\* C2: a request whose (sender origin, action) pair matches no rule, or only
\* rules whose allow-set excludes the action, is answered with one Response
\* carrying an error, and the storage is what it was before the request.
C2_DeniedLeavesStorage ==
  (HandledAction /\ ~SomeRuleGrants(LastOrigin, LastMethod))
    => /\ Len(hubLast.sent) = 1
       /\ CarriesError(hubLast.sent[1])
       /\ Prop(hubLast.sent[1].data.val, "error").t = "str"
       /\ storage = hubLast.before

\* C2 witness: a denied clear or del arrived while the storage held an item,
\* from an origin some rule matches (with an allow-set excluding the action).
C2_Witness ==
  /\ HandledAction
  /\ LastMethod \in {"clear", "del"}
  /\ MatchingRules(LastOrigin) # {}
  /\ ~SomeRuleGrants(LastOrigin, LastMethod)
  /\ "x" \in DOMAIN hubLast.before

\* what the five operations are to do to the storage, and to return
ExpectedStorage(method, request, before) ==
  LET key == Prop(request, "key")
      gone == IF key.t = "arr" THEN Range(key.items) ELSE {key.v}
  IN CASE method = "set" ->
            [k \in (DOMAIN before) \cup {key.v} |->
               IF k = key.v THEN Prop(request, "value").v ELSE before[k]]
       [] method = "del" -> [k \in (DOMAIN before) \ gone |-> before[k]]
       [] method = "clear" -> EmptyStorage
       [] OTHER -> before

StoredOrNull(before, k) == IF k \in DOMAIN before THEN Str(before[k]) ELSE Null

ExpectedResult(method, request, before) ==
  LET key == Prop(request, "key") IN
  CASE method = "get" /\ key.t = "arr" ->
         Obj([k \in Range(key.items) |-> StoredOrNull(before, k)])
    [] method = "get" /\ key.t # "arr" -> StoredOrNull(before, key.v)
    [] method = "getKeys" ->
         Arr(SelectSeq(KeyOrder, LAMBDA k : k \in DOMAIN before))
    [] OTHER -> Undefined

\* C3: a request whose (sender origin, action) pair matches a rule whose
\* allow-set is "*" or contains the action is executed (the storage changes as
\* the operation says) and answered with one Response that carries no error and
\* whose result is what the operation returned, the engine not throwing.
C3_PermittedExecutes ==
  (HandledAction /\ hubLast.fault = NoFault
     /\ SomeRuleGrants(LastOrigin, LastMethod))
    => /\ Len(hubLast.sent) = 1
       /\ ~CarriesError(hubLast.sent[1])
       /\ Prop(hubLast.sent[1].data.val, "result")
            = ExpectedResult(LastMethod, LastRequest, hubLast.before)
       /\ LastMethod \in {"get", "getKeys"} => CarriesResult(hubLast.sent[1])
       /\ storage = ExpectedStorage(LastMethod, LastRequest, hubLast.before)

\* C3 witness: a permitted del of several keys removed an item.
C3_Witness ==
  /\ HandledAction
  /\ hubLast.fault = NoFault
  /\ SomeRuleGrants(LastOrigin, LastMethod)
  /\ LastMethod = "del"
  /\ Prop(LastRequest, "key").t = "arr"
  /\ DOMAIN hubLast.before = {"x", "y"}
  /\ storage = EmptyStorage

\* C4: the hub posts exactly one Response, with the Request's id, for a message
\* that parses as a Request with a non-empty id and method (whatever the method
\* and the permissions), and no Response for a poll signal, a ready signal, an
\* unparseable payload or one lacking id or method; it posts no Response
\* outside such a run.
C4_OneResponsePerRequest ==
  LET responses == Responses(hubLast.sent) IN
  IF hubLast.ev = "message" /\ IsRequest(hubLast.data)
  THEN /\ Len(responses) = 1
       /\ Len(hubLast.sent) = 1
       /\ "id" \in DOMAIN responses[1].data.val.f
       /\ responses[1].data.val.f["id"] = Prop(hubLast.data.val, "id")
       /\ ~hubLast.threw
  ELSE responses = <<>>

\* C4 witness: a request with a numeric id and an engine that threw was answered
C4_Witness ==
  /\ hubLast.ev = "message"
  /\ IsRequest(hubLast.data)
  /\ Prop(hubLast.data.val, "id") = Num("7")
  /\ hubLast.fault # NoFault
  /\ Len(Responses(hubLast.sent)) = 1

\* C4 witness for the other half: a payload without id was dropped
C4_DroppedWitness ==
  /\ hubLast.ev = "message"
  /\ hubLast.data = JSONstringify([method |-> Str("clear")])
  /\ hubLast.sent = <<>>

\* ================================================================ the client
\* the bounds of the client's runs
\* requests one client issues (this.count)
MaxRequests == 2

\* messages waiting in front of the client window
MaxInFlight == 2
\* connect() calls made on one client
MaxConnects == 2
\* watch() calls made on one client
MaxWatch == 2

\* uuid()
ClientId == "c1"
\* new URL(url).origin of the hub document
HubOrigin == "https://hub.example"
HubUrlOrigins == {HubOrigin, "file://"}

\* the part of the client a request run leaves alone
connectVars == <<connects, connectTimers, connectCalls, connectLog>>
watchVars == <<watchers, handles, regs, unsubscribed>>
frameVars == <<thisOrigin, frameOwn, frameInDom, polling, listenerOn>>

\* get targetOrigin
TargetOrigin(o) == IF o = "file://" THEN "*" ELSE o

\* `${this.id}:${this.count}`
RequestId(n) == ClientId \o ":" \o ToString(n)

\* get hub: this.frame?.contentWindow, null once the iframe left the document
HubWindow == frameInDom

\* the record kept of one client step
ClientRun(op, mo, data, method, outcome, sent, calls, threw) ==
  [op |-> op, origin |-> mo, data |-> data, method |-> method,
   outcome |-> outcome, sent |-> sent, calls |-> calls, threw |-> threw]

NoClientRun == ClientRun("none", "", Text(""), "", "", <<>>, <<>>, FALSE)

\* one invocation of a callback: a request's, a connect() caller's, a watcher's
Call(fn, id, how, value) == [fn |-> fn, id |-> id, how |-> how, value |-> value]

\* one resolve or reject of a promise
Settle(how, by, value) == [how |-> how, by |-> by, value |-> value]

EmptyMap == [k \in {} |-> 0]
MapPut(m, k, v) == [x \in (DOMAIN m) \cup {k} |-> IF x = k THEN v ELSE m[x]]
MapDel(m, k) == [x \in (DOMAIN m) \ {k} |-> m[x]]

\* the state the constructor leaves; own: it found no iframe and created one
ClientConstructed(hubOrigin, own) ==
  /\ thisOrigin = hubOrigin
  /\ connected = FALSE
  /\ closed = FALSE
  /\ count = 0
  /\ frameOwn = own
  /\ frameInDom = TRUE
  /\ polling = ~frameOwn
  /\ listenerOn = TRUE
  /\ requests = EmptyMap
  /\ timers = {}
  /\ connects = <<>>
  /\ connectTimers = {}
  /\ connectCalls = 0
  /\ connectLog = <<>>
  /\ watchers = <<>>
  /\ handles = <<>>
  /\ regs = <<>>
  /\ unsubscribed = {}
  /\ settled = EmptyMap
  /\ clientLast = NoClientRun

ClientInitState ==
  \E hubOrigin \in HubUrlOrigins, own \in BOOLEAN :
    ClientConstructed(hubOrigin, own)

\* a _request that forgets the connected check
GateClosedOnly(isClosed, isConnected) == IF isClosed THEN "closed" ELSE ""

\* the two early returns of _request: which rejection, if any
Gate(isClosed, isConnected) ==
  IF isClosed THEN "closed"
  ELSE IF ~isConnected THEN "not-connected"
  ELSE ""

GateError(gate) ==
  IF gate = "closed" THEN Str("CrossStorageClient has been closed")
  ELSE Str("CrossStorageClient is not connected")

\* CrossStorageClient._request(method, params)
ClientRequest(method, params) ==
  LET gate == Gate(closed, connected)
      id == RequestId(count + 1)
      request == [id |-> Str(id), method |-> Str(method)] @@ params
  IN
  /\ IF gate # ""
     THEN /\ clientLast' = ClientRun("request", "", Text(""), method, gate,
                                     <<>>,
                                     <<Call("request", "", "reject",
                                            GateError(gate))>>, FALSE)
          /\ UNCHANGED <<count, requests, timers, settled>>
     ELSE /\ count < MaxRequests
          /\ count' = count + 1
          /\ IF ~HubWindow
             THEN /\ clientLast' = ClientRun("request", "", Text(""), method,
                                             "no-hub", <<>>, <<>>, FALSE)
                  /\ settled' = MapPut(settled, id,
                        <<Settle("reject", "no-hub",
                             Str("CrossStorageClient hub is not available"))>>)
                  /\ UNCHANGED <<requests, timers>>
             ELSE /\ requests' = MapPut(requests, id,
                                        [method |-> method, n |-> count + 1])
                  /\ timers' = timers \cup {id}
                  /\ settled' = MapPut(settled, id, <<>>)
                  /\ clientLast' = ClientRun("request", "", Text(""), method,
                        "accepted",
                        <<Posted(JSONstringify(request),
                                 TargetOrigin(thisOrigin))>>, <<>>, FALSE)
  /\ UNCHANGED <<connected, closed, connectVars, watchVars, frameVars>>

\* the setTimeout callback of _request
RequestTimeout(id) ==
  /\ id \in timers
  /\ timers' = timers \ {id}
  /\ IF id \notin DOMAIN requests
     THEN /\ clientLast' = ClientRun("timeout", "", Text(""), "", id, <<>>,
                                     <<>>, FALSE)
          /\ UNCHANGED <<requests, settled>>
     ELSE /\ requests' = MapDel(requests, id)
          /\ settled' = [settled EXCEPT ![id] =
                Append(@, Settle("reject", "timeout",
                   Str("Timeout: cross-storage:" \o requests[id].method
                       \o " request timed out after 30000ms")))]
          /\ clientLast' = ClientRun("timeout", "", Text(""),
                                     requests[id].method, id, <<>>,
                                     <<Call("request", id, "reject",
                                            Str("timeout"))>>, FALSE)
  /\ UNCHANGED <<connected, closed, count, connectVars, watchVars, frameVars>>

\* a close() that forgets `this.connected = false`
CloseKeepsConnected ==
  /\ frameInDom' = FALSE
  /\ listenerOn' = FALSE
  /\ closed' = TRUE
  /\ connected' = connected

\* CrossStorageClient.close()
CloseEffect ==
  /\ frameInDom' = FALSE
  /\ listenerOn' = FALSE
  /\ closed' = TRUE
  /\ connected' = FALSE

ClientClose ==
  /\ CloseEffect
  /\ clientLast' = ClientRun("close", "", Text(""), "", "", <<>>, <<>>, FALSE)
  /\ UNCHANGED <<thisOrigin, frameOwn, polling, count, requests, timers, settled,
                 connectVars, watchVars>>

\* a script of the page takes the iframe out of the document
PageRemovesFrame ==
  /\ frameInDom
  /\ frameInDom' = FALSE
  /\ clientLast' = ClientRun("frame-removed", "", Text(""), "", "", <<>>,
                             <<>>, FALSE)
  /\ UNCHANGED <<thisOrigin, frameOwn, polling, listenerOn, connected, closed,
                 count, requests, timers, settled, connectVars, watchVars>>

\* ------------------------------------------------- the client's _onListener
\* typeof messageData === 'string' and messageData is not ""
NonString == [kind |-> "object"]
IsNonEmptyString(data) ==
  /\ data.kind \in {"text", "json"}
  /\ ~(data.kind = "text" /\ data.text = "")

\* a listener that takes only the ready signal for a handshake
IsReadySignal(data, prefix) == data = Text(EVENT_READY)

\* messageData.startsWith(prefix); JSON text starts with none of the prefixes
StartsWith(data, prefix) ==
  /\ data.kind = "text"
  /\ Len(data.text) >= Len(prefix)
  /\ SubSeq(data.text, 1, Len(prefix)) = prefix

\* messageData.slice(EVENT_CHANGE.length + 1), then '*' becomes null
ChangeKey(data) ==
  LET watchKey == SubSeq(data.text, Len(EVENT_CHANGE) + 2, Len(data.text))
  IN IF watchKey = "*" THEN Null ELSE Str(watchKey)

\* a client that hands a Response to the oldest pending request
OldestPending(reqs, response) ==
  {id \in DOMAIN reqs : \A other \in DOMAIN reqs : reqs[id].n <= reqs[other].n}

\* this._requests[response.id]: the pending callbacks the Response reaches
PendingFor(reqs, response) ==
  {id \in DOMAIN reqs : id = JsString(Prop(response, "id"))}

\* a request callback that leaves its entry in the map
RequestsAfterCallbackKept(reqs, id) == reqs

\* the request callback's `delete requestsCache[request.id]`
RequestsAfterCallback(reqs, id) == MapDel(reqs, id)

\* the request callback's reject(new Error(response.error)) or resolve(result)
SettleByResponse(response) ==
  IF Truthy(Prop(response, "error"))
  THEN Settle("reject", "response", Prop(response, "error"))
  ELSE Settle("resolve", "response", Prop(response, "result"))

\* the connect() callers in the queue, each called with an error or without
ConnectCallbacks(how, value) ==
  [i \in 1..Len(connects) |-> Call("connect", connects[i], how, value)]

\* a listener that calls only the first connect() caller of the queue
ConnectLogFirstOnly(how, by, value) ==
  [c \in 1..Len(connectLog) |->
     IF connects # <<>> /\ connects[1] = ToString(c)
     THEN Append(connectLog[c], Settle(how, by, value))
     ELSE connectLog[c]]

\* connect() callbacks that clear their timer and settle nothing
ConnectLogUntouched(how, by, value) == connectLog

ConnectLogAfter(how, by, value) ==
  [c \in 1..Len(connectLog) |->
     IF \E i \in 1..Len(connects) : connects[i] = ToString(c)
     THEN Append(connectLog[c], Settle(how, by, value))
     ELSE connectLog[c]]

UnavailableError ==
  Str("CrossStorageHub unavailable, check if localStorage is enabled in the hub domain")

\* the functions a page registers as watchers
Callbacks == {"f", "g"}

\* this._watchers.indexOf(watcher), 0 when absent
IndexOf(seq, x) ==
  IF \E i \in 1..Len(seq) : seq[i] = x
  THEN CHOOSE i \in 1..Len(seq) :
         seq[i] = x /\ \A j \in 1..(i - 1) : seq[j] # x
  ELSE 0

\* this._watchers.splice(index, 1)
Splice(seq, index) ==
  [i \in 1..(Len(seq) - 1) |-> IF i < index THEN seq[i] ELSE seq[i + 1]]


\* what a watcher does when it is called: nothing, or it calls the
\* unsubscribe function its page got from the h-th watch(), or it calls watch()
Idle == [do |-> "nothing"]
CallsUnsubscribe(h) == [do |-> "unsubscribe", h |-> h]
CallsWatch(cb) == [do |-> "watch", cb |-> cb]

\* watchers that only look at the key
Passive == [cb \in Callbacks |-> Idle]

\* the watcher collection with its history, and the calls made so far
Watching(ws, hs, rg, un, calls) ==
  [watchers |-> ws, handles |-> hs, regs |-> rg, unsubscribed |-> un,
   calls |-> calls]

\* the body of a watcher has run: what it did to the collection
AfterAct(w, act) ==
  IF act.do = "unsubscribe" /\ act.h \in 1..Len(w.handles)
  THEN LET index == IndexOf(w.watchers, w.handles[act.h]) IN
       [w EXCEPT !.watchers = IF index > 0 THEN Splice(@, index) ELSE @,
                 !.regs = IF index > 0 THEN Splice(@, index) ELSE @,
                 !.unsubscribed = @ \cup {act.h}]
  ELSE IF act.do = "watch" /\ Len(w.handles) < MaxWatch
  THEN [w EXCEPT !.watchers = Append(@, act.cb),
                 !.handles = Append(@, act.cb),
                 !.regs = Append(@, Len(w.handles) + 1)]
  ELSE w

\* watchers.forEach((watcher) => watcher(changeKey)) from index k on: forEach
\* visits the indices below the length it read at the start and reads the live
\* array at each index
RECURSIVE ForEachWatcher(_, _, _, _, _)
ForEachWatcher(k, len, w, acts, changeKey) ==
  IF k > len \/ k > Len(w.watchers) THEN w
  ELSE LET cb == w.watchers[k]
           called == [w EXCEPT !.calls =
                        Append(@, Call("watcher", cb, "call", changeKey))]
       IN ForEachWatcher(k + 1, len, AfterAct(called, acts[cb]), acts,
                         changeKey)


\* a "message" event reaches the client window: _onListener runs if registered
ClientHandles(mo, data, acts) ==
  /\ listenerOn
  /\ IF closed \/ ~IsNonEmptyString(data) \/ NormOrigin(mo) # thisOrigin
     THEN /\ clientLast' = ClientRun("message", mo, data, "", "ignored",
                                     <<>>, <<>>, FALSE)
          /\ UNCHANGED <<connected, closed, count, requests, timers, settled,
                         connectVars, watchVars, frameVars>>
     ELSE IF data = Text(EVENT_UNAVAILABLE)
     THEN /\ CloseEffect
          /\ connectTimers' = connectTimers \ Range(connects)
          /\ connectLog' = ConnectLogAfter("reject", "unavailable",
                                           UnavailableError)
          /\ clientLast' = ClientRun("message", mo, data, "", "unavailable",
                              <<>>,
                              ConnectCallbacks("reject", UnavailableError),
                              FALSE)
          /\ UNCHANGED <<thisOrigin, frameOwn, polling, count, requests, timers,
                         settled, connects, connectCalls, watchVars>>
     ELSE LET connectNow == StartsWith(data, "cross-storage:") /\ ~connected
              notify == /\ Len(watchers) > 0
                        /\ StartsWith(data, EVENT_CHANGE \o ":")
              before == Watching(watchers, handles, regs, unsubscribed, <<>>)
              after ==
                IF notify
                THEN ForEachWatcher(1, Len(watchers), before, acts,
                                    ChangeKey(data))
                ELSE before
              watcherCalls == after.calls
              parsed == data # Text(EVENT_READY) /\ data.kind = "json"
              threw == parsed /\ data.val.t = "null"
              hit == IF parsed /\ ~threw /\ Truthy(Prop(data.val, "id"))
                     THEN PendingFor(requests, data.val)
                     ELSE {}
          IN
          /\ IF connectNow
             THEN /\ connected' = TRUE
                  /\ connectTimers' = connectTimers \ Range(connects)
                  /\ connectLog' = ConnectLogAfter("resolve", "connected",
                                                   Undefined)
                  /\ connects' = <<>>
             ELSE UNCHANGED <<connected, connects, connectTimers, connectLog>>
          /\ IF hit = {}
             THEN UNCHANGED <<requests, timers, settled>>
             ELSE LET id == CHOOSE i \in hit : TRUE IN
                  /\ timers' = timers \ {id}
                  /\ requests' = RequestsAfterCallback(requests, id)
                  /\ settled' = [settled EXCEPT ![id] =
                                   Append(@, SettleByResponse(data.val))]
          /\ clientLast' =
               ClientRun("message", mo, data, "", "handled", <<>>,
                 (IF connectNow THEN ConnectCallbacks("resolve", Undefined)
                  ELSE <<>>)
                 \o watcherCalls
                 \o (IF hit = {} THEN <<>>
                     ELSE LET id == CHOOSE i \in hit : TRUE IN
                          <<Call("request", id,
                                 SettleByResponse(data.val).how,
                                 SettleByResponse(data.val).value)>>),
                 threw)
          /\ watchers' = after.watchers
          /\ handles' = after.handles
          /\ regs' = after.regs
          /\ unsubscribed' = after.unsubscribed
          /\ UNCHANGED <<closed, count, connectCalls, frameVars>>

\* _onListener while the watchers of the page only look at the key
ClientOnMessage(mo, data) == ClientHandles(mo, data, Passive)

\* ------------------------------------------------------- connect and polling
\* CrossStorageClient.connect()
ClientConnect ==
  /\ connectCalls < MaxConnects
  /\ connectCalls' = connectCalls + 1
  /\ LET c == ToString(connectCalls + 1) IN
     IF connected
     THEN /\ connectLog' = Append(connectLog,
                                  <<Settle("resolve", "immediate", Undefined)>>)
          /\ clientLast' = ClientRun("connect", "", Text(""), "", "resolved",
                                     <<>>, <<>>, FALSE)
          /\ UNCHANGED <<connects, connectTimers>>
     ELSE IF closed
     THEN /\ connectLog' = Append(connectLog,
                <<Settle("reject", "immediate",
                         Str("CrossStorageClient has been closed"))>>)
          /\ clientLast' = ClientRun("connect", "", Text(""), "", "closed",
                                     <<>>, <<>>, FALSE)
          /\ UNCHANGED <<connects, connectTimers>>
     ELSE /\ connectLog' = Append(connectLog, <<>>)
          /\ connectTimers' = connectTimers \cup {c}
          /\ connects' = Append(connects, c)
          /\ clientLast' = ClientRun("connect", "", Text(""), "", "queued",
                                     <<>>, <<>>, FALSE)
  /\ UNCHANGED <<connected, closed, count, requests, timers, settled,
                 watchVars, frameVars>>

\* the setTimeout callback of connect()
ConnectTimeout(c) ==
  /\ c \in connectTimers
  /\ connectTimers' = connectTimers \ {c}
  /\ connectLog' =
       [k \in 1..Len(connectLog) |->
          IF ToString(k) = c
          THEN Append(connectLog[k],
                      Settle("reject", "timeout",
                             Str("CrossStorageClient timed out after 30000ms")))
          ELSE connectLog[k]]
  /\ clientLast' = ClientRun("connect-timeout", "", Text(""), "", c, <<>>,
                             <<>>, FALSE)
  /\ UNCHANGED <<connected, closed, count, requests, timers, settled,
                 connects, connectCalls, watchVars, frameVars>>

\* one tick of the setInterval of _poll
PollTick ==
  /\ polling
  /\ IF connected
     THEN /\ polling' = FALSE
          /\ clientLast' = ClientRun("poll", "", Text(""), "", "cleared",
                                     <<>>, <<>>, FALSE)
     ELSE IF ~HubWindow
     THEN /\ clientLast' = ClientRun("poll", "", Text(""), "", "no-hub",
                                     <<>>, <<>>, FALSE)
          /\ UNCHANGED polling
     ELSE /\ clientLast' = ClientRun("poll", "", Text(""), "", "polled",
                              <<Posted(Text(EVENT_POLL), TargetOrigin(thisOrigin))>>,
                              <<>>, FALSE)
          /\ UNCHANGED polling
  /\ UNCHANGED <<thisOrigin, frameOwn, frameInDom, listenerOn, connected, closed,
                 count, requests, timers, settled, connectVars, watchVars>>

\* --------------------------------------------------------------- watchers
\* CrossStorageClient.watch(watcher)
ClientWatch(cb) ==
  /\ Len(handles) < MaxWatch
  /\ watchers' = Append(watchers, cb)
  /\ handles' = Append(handles, cb)
  /\ regs' = Append(regs, Len(handles) + 1)
  /\ clientLast' = ClientRun("watch", "", Text(""), "", cb, <<>>, <<>>, FALSE)
  /\ UNCHANGED <<unsubscribed, connected, closed, count, requests, timers,
                 settled, connectVars, frameVars>>

\* the function watch() returned to its h-th caller
ClientUnsubscribe(h) ==
  /\ h \in 1..Len(handles)
  /\ LET index == IndexOf(watchers, handles[h]) IN
     IF index > 0
     THEN /\ watchers' = Splice(watchers, index)
          /\ regs' = Splice(regs, index)
     ELSE UNCHANGED <<watchers, regs>>
  /\ unsubscribed' = unsubscribed \cup {h}
  /\ clientLast' = ClientRun("unsubscribe", "", Text(""), "", ToString(h),
                             <<>>, <<>>, FALSE)
  /\ UNCHANGED <<handles, connected, closed, count, requests, timers,
                 settled, connectVars, frameVars>>

\* ------------------------------------------ what is posted to the client
ClientSenderOrigins == {HubOrigin, OriginA, "null"}

ResponseTexts ==
  {JSONstringify([id |-> Str(RequestId(n)), method |-> Str("get"),
                  result |-> Str("v")]) : n \in 1..(MaxRequests + 1)}
  \cup {JSONstringify([id |-> Str(RequestId(1)), method |-> Str("del"),
                       error |-> Str("Invalid permissions for del"),
                       result |-> Null])}

ClientInputs ==
  { Text(EVENT_READY), Text(EVENT_UNAVAILABLE), ChangeMessage("x"),
    Text("hello"), Text(""), NonString, Json(Null),
    JSONstringify([method |-> Str("get"), result |-> Str("v")]) }
  \cup ResponseTexts

\* ---------------------------- the client's requests on their own: SpecRequests
RequestCalls ==
  \/ ClientRequest("get", [key |-> Str("x")])
  \/ ClientRequest("set", [key |-> Str("x"), value |-> Str("1")])

\* a step of the client while the hub and the channels stand still
ClientAlone(A) == A /\ UNCHANGED <<hubVars, chanVars>>

ClientReceive ==
  \E mo \in ClientSenderOrigins, data \in ClientInputs :
    ClientOnMessage(mo, data)

RequestTimerFires == \E id \in timers : RequestTimeout(id)

RequestsNext ==
  \/ ClientAlone(RequestCalls)
  \/ ClientAlone(RequestTimerFires)
  \/ ClientAlone(ClientReceive)
  \/ ClientAlone(ClientClose)
  \/ ClientAlone(PageRemovesFrame)

RequestsInit ==
  /\ ClientInitState
  /\ HubLoaded(TRUE, EmptyStorage)
  /\ NoTraffic

SpecRequests == RequestsInit /\ [][RequestsNext]_vars

\* ======================================================= client: C6 .. C8
\* the step just taken is a call of a storage operation (_request)
RequestStep == clientLast' # clientLast /\ clientLast'.op = "request"

\* the request run touched nothing: no message to the hub, no new pending
\* entry, no timer, no id used up
NoTrace ==
  /\ clientLast'.sent = <<>>
  /\ requests' = requests
  /\ timers' = timers
  /\ settled' = settled
  /\ count' = count

\* C6: a storage operation called while the client is not yet connected is
\* rejected at once with the not-connected error, and one called after close()
\* with the closed error; neither posts a message, adds a pending entry or
\* starts a timer.
C6_RejectsBeforeConnectAndAfterClose ==
  [][ /\ (RequestStep /\ closed)
         => /\ clientLast'.calls =
                 <<Call("request", "", "reject",
                        Str("CrossStorageClient has been closed"))>>
            /\ NoTrace
      /\ (RequestStep /\ ~closed /\ ~connected)
         => /\ clientLast'.calls =
                 <<Call("request", "", "reject",
                        Str("CrossStorageClient is not connected"))>>
            /\ NoTrace ]_vars

\* C6 witness: a request was rejected as closed while an earlier request, made
\* when the client was connected, is still pending.
C6_Witness ==
  /\ clientLast.op = "request"
  /\ clientLast.outcome = "closed"
  /\ closed
  /\ DOMAIN requests # {}

\* C6 witness for the other case: rejected as not connected, nothing issued
C6_NotConnectedWitness ==
  /\ clientLast.op = "request"
  /\ clientLast.outcome = "not-connected"
  /\ count = 0

\* the last message was a Response from the hub's origin carrying this id
LastAnswers(id) ==
  /\ clientLast.op = "message"
  /\ NormOrigin(clientLast.origin) = thisOrigin
  /\ clientLast.data.kind = "json"
  /\ clientLast.data.val.t = "obj"
  /\ Prop(clientLast.data.val, "id") = Str(id)

\* C7: every pending entry is removed exactly once, by its Response or by its
\* timer, never both: an entry is pending exactly while its promise is
\* unsettled and its timer is running, a timer that fires
\* rejects and removes, and a Response arriving after that calls no handler.
C7_RemovedExactlyOnce ==
  /\ DOMAIN requests \subseteq DOMAIN settled
  /\ timers = DOMAIN requests
  /\ \A id \in DOMAIN settled :
       /\ Len(settled[id]) <= 1
       /\ (id \in DOMAIN requests) <=> (settled[id] = <<>>)
       /\ (clientLast.op = "timeout" /\ clientLast.outcome = id)
            => /\ Len(settled[id]) = 1
               /\ settled[id][1].how = "reject"
               /\ settled[id][1].by = "timeout"
       /\ (LastAnswers(id) /\ Len(settled[id]) = 1
             /\ settled[id][1].by = "timeout")
            => clientLast.calls = <<>>

\* C7 witness: a request timed out and a Response with its id arrived later
C7_Witness ==
  \E id \in DOMAIN settled :
    /\ Len(settled[id]) = 1
    /\ settled[id][1].by = "timeout"
    /\ LastAnswers(id)
    /\ ~closed

\* the step just taken ran _onListener on a message
MessageStep == clientLast'.op = "message"

\* that message is a Response the client accepts and that carries this id
Answers(id) ==
  /\ ~closed
  /\ listenerOn
  /\ NormOrigin(clientLast'.origin) = thisOrigin
  /\ clientLast'.data.kind = "json"
  /\ clientLast'.data.val.t = "obj"
  /\ Prop(clientLast'.data.val, "id") = Str(id)

\* C8: whatever the order, a Response settles the pending request whose id it
\* carries and no other; a message that carries the id of no pending request
\* (a duplicate, a change notification, anything else) settles nothing, so the
\* matching Response still settles its request when it comes.
C8_CorrelationById ==
  [][ MessageStep =>
        \A id \in DOMAIN requests :
          IF Answers(id)
          THEN /\ id \notin DOMAIN requests'
               /\ id \notin timers'
               /\ settled'[id] = <<SettleByResponse(clientLast'.data.val)>>
               /\ clientLast'.calls # <<>>
               /\ clientLast'.calls[Len(clientLast'.calls)].id = id
          ELSE /\ id \in DOMAIN requests'
               /\ requests'[id] = requests[id]
               /\ settled'[id] = settled[id]
               /\ (id \in timers') <=> (id \in timers) ]_vars

\* C8 witness: with two requests outstanding the Response to the second came
\* first; the first is still pending.
C8_Witness ==
  /\ RequestId(1) \in DOMAIN requests
  /\ RequestId(2) \in DOMAIN settled
  /\ Len(settled[RequestId(2)]) = 1
  /\ settled[RequestId(2)][1].by = "response"
  /\ LastAnswers(RequestId(2))

\* ============================================ the client and the hub together
\* the origin of the page that runs the client
ClientPageOrigin == OriginA

\* MessageEvent.origin for a sender document
ReportedOrigin(o) == IF o = "file://" THEN "null" ELSE o

\* postMessage: what a window of origin `at` receives out of `sent`, posted by
\* a document of origin `from`; cause is the storage event behind it, if any
Delivered(sent, at, from, cause) ==
  LET ok == SelectSeq(sent, LAMBDA m : m.target = "*" \/ m.target = at) IN
  [i \in 1..Len(ok) |->
     [origin |-> ReportedOrigin(from), data |-> ok[i].data, cause |-> cause]]

\* the history of who wrote a key last
ByNobody == [by |-> "none", op |-> "", id |-> ""]
ByClient(op, id) == [by |-> "client", op |-> op, id |-> id]
ByOther(op) == [by |-> "other", op |-> op, id |-> ""]
LastWriteOf(k) == IF k \in DOMAIN lastWrite THEN lastWrite[k] ELSE ByNobody

\* the hub ran a request without an error: a set, del or get of one key
HubHistory(data, sent) ==
  LET ran == /\ IsActionRequest(data)
             /\ Len(sent) = 1
             /\ "error" \notin DOMAIN sent[1].data.val.f
      method == Prop(data.val, "method").v
      id == JsString(Prop(data.val, "id"))
      k == JsString(Prop(data.val, "key"))
  IN
  /\ lastWrite' = IF ran /\ method \in {"set", "del"}
                  THEN MapPut(lastWrite, k, ByClient(method, id))
                  ELSE lastWrite
  /\ getSaw' = IF ran /\ method = "get"
               THEN MapPut(getSaw, id, LastWriteOf(k))
               ELSE getSaw

\* Hub.init runs in the iframe; what it posts reaches the client's window
HubBoots(perms, keys) ==
  /\ HubInit(perms, keys)
  /\ toClient' = toClient
       \o Delivered(hubLast'.sent, ClientPageOrigin, HubOrigin, NoCause)
  /\ UNCHANGED <<toHub, issued, lastWrite, getSaw, lastCause, clientVars>>

\* a storage operation is called; an accepted request travels to the hub
ClientCalls(method, params) ==
  /\ ClientRequest(method, params)
  /\ toHub' = toHub
       \o Delivered(clientLast'.sent, HubOrigin, ClientPageOrigin, NoCause)
  /\ issued' = IF clientLast'.outcome = "accepted"
               THEN MapPut(issued, RequestId(count + 1),
                           [method |-> method, params |-> params])
               ELSE issued
  /\ UNCHANGED <<toClient, lastWrite, getSaw, lastCause, hubVars>>

\* the oldest message posted to the hub window is delivered
HubDelivers ==
  /\ toHub # <<>>
  /\ \E fault \in FaultsFor(Head(toHub).data) :
       HubOnMessage(Head(toHub).origin, Head(toHub).data, fault)
  /\ toHub' = Tail(toHub)
  /\ toClient' = toClient
       \o Delivered(hubLast'.sent, ClientPageOrigin, HubOrigin, NoCause)
  /\ HubHistory(Head(toHub).data, hubLast'.sent)
  /\ UNCHANGED <<issued, lastCause, clientVars>>

\* the oldest message posted to the client window is delivered
ClientDelivers ==
  /\ toClient # <<>>
  /\ ClientOnMessage(Head(toClient).origin, Head(toClient).data)
  /\ toClient' = Tail(toClient)
  /\ lastCause' = Head(toClient).cause
  /\ UNCHANGED <<toHub, issued, lastWrite, getSaw, hubVars>>

\* another document changes the storage; the hub's _onStorage may notify
OtherWrites(change, cause, written) ==
  /\ Len(toClient) < MaxInFlight
  /\ change
  /\ toClient' = toClient
       \o Delivered(hubLast'.sent, ClientPageOrigin, HubOrigin, cause)
  /\ lastWrite' = [k \in (DOMAIN lastWrite) \cup written |->
                     IF k \in written THEN ByOther(cause.kind)
                     ELSE lastWrite[k]]
  /\ UNCHANGED <<toHub, issued, getSaw, lastCause, clientVars>>

KeyChanged(k) == [kind |-> "key", key |-> k]
Cleared == [kind |-> "clear", key |-> ""]
Elsewhere(k) == [kind |-> "elsewhere", key |-> k]

\* the permission lists of the hub in the end-to-end runs
RoundTripRuleLists ==
  { <<[origin |-> StringOrigin(OriginA), allow |-> Allow({"get", "set"})]>>,
    <<[origin |-> StringOrigin(OriginA), allow |-> Allow({})],
      [origin |-> StringOrigin(OriginA), allow |-> AllowAll]>> }

\* ------------------------------------------------- requests end to end: Spec
Init ==
  /\ ClientConstructed(HubOrigin, TRUE)
  /\ HubLoaded(TRUE, EmptyStorage)
  /\ NoTraffic

HubLoads == \E perms \in RoundTripRuleLists : HubBoots(perms, WatchOff)

SetCalled == \E v \in Values : ClientCalls("set", [key |-> Str("x"), value |-> v])
GetCalled == ClientCalls("get", [key |-> Str("x")])
DelCalled == ClientCalls("del", [key |-> Str("x")])

OtherSets == OtherWrites(OtherSetItem("x", "2"), KeyChanged("x"), {"x"})
OtherRemoves == OtherWrites(OtherRemoveItem("x"), KeyChanged("x"), {"x"})

Next ==
  \/ HubLoads
  \/ SetCalled
  \/ GetCalled
  \/ DelCalled
  \/ HubDelivers
  \/ ClientDelivers
  \/ OtherSets
  \/ OtherRemoves

Spec == Init /\ [][Next]_vars

\* the get with this id went through the hub and the client settled it
GetAnswered(g) ==
  /\ g \in DOMAIN settled
  /\ Len(settled[g]) = 1
  /\ settled[g][1].by = "response"

\* the last write to the key before the get ran was this client's own request
OwnWriteBefore(g) == getSaw[g].by = "client"

\* the value passed to the set() call with this id
ValuePassed(id) == issued[id].params.value

C5_DelWitness ==
  \E g \in DOMAIN getSaw :
    /\ GetAnswered(g)
    /\ OwnWriteBefore(g)
    /\ getSaw[g].op = "del"
    /\ settled[g][1] = Settle("resolve", "response", Null)

\* ---------------------------------------- change notifications: SpecNotify
HubLoadsWatching == \E keys \in WatchOptions : HubBoots(<<>>, keys)

WatchCalled ==
  \E cb \in Callbacks : ClientWatch(cb) /\ UNCHANGED <<hubVars, chanVars>>

OtherSetsAny ==
  \E k \in EventKeys : OtherWrites(OtherSetItem(k, "1"), KeyChanged(k), {})
OtherRemovesAny ==
  \E k \in EventKeys : OtherWrites(OtherRemoveItem(k), KeyChanged(k), {})
OtherClears == OtherWrites(OtherClear, Cleared, {})
OtherChangesElsewhere == OtherWrites(OtherAreaChange("x"), Elsewhere("x"), {})

NotifyNext ==
  \/ HubLoadsWatching
  \/ WatchCalled
  \/ OtherSetsAny
  \/ OtherRemovesAny
  \/ OtherClears
  \/ OtherChangesElsewhere
  \/ ClientDelivers

SpecNotify == Init /\ [][NotifyNext]_vars

\* the hub's _onStorage ran on a change another document made to localStorage
StorageEventSeen == hubLast.ev = "storage" /\ watching

\* the changed key is one the hub was asked to watch; a clear touches them all
Watched(key) ==
  \/ key = Null
  \/ watchKeys.mode = "all"
  \/ key.v \in watchKeys.keys

\* the client's listener just ran on the notification of a storage change
NotificationSeen ==
  /\ clientLast.op = "message"
  /\ clientLast.outcome = "handled"
  /\ lastCause.kind \in {"key", "clear"}

WatcherCalls == SelectSeq(clientLast.calls, LAMBDA c : c.fn = "watcher")

\* C9 as stated: the hub posts one notification for a change of a watched key
\* or a clear and none for a key outside the watch set; each watcher is called
\* once with exactly the changed key, and with null only for a clear.
C9_OneNotificationPerWatchedChange ==
  /\ StorageEventSeen
       => Len(hubLast.sent) = IF Watched(hubLast.key) THEN 1 ELSE 0
  /\ NotificationSeen
       => WatcherCalls =
            [i \in 1..Len(watchers) |->
               Call("watcher", watchers[i], "call",
                    IF lastCause.kind = "clear" THEN Null
                    ELSE Str(lastCause.key))]

\* ------------------------------------------- watch and unsubscribe: SpecWatch
Unsubscribes == \E h \in 1..MaxWatch : ClientUnsubscribe(h)

Watches == \E cb \in Callbacks : ClientWatch(cb)

NotificationArrives ==
  \E data \in {Text(EVENT_READY), ChangeMessage("x"), ChangeMessage("*")} :
    ClientOnMessage(HubOrigin, data)

WatchNext ==
  \/ ClientAlone(Watches)
  \/ ClientAlone(Unsubscribes)
  \/ ClientAlone(NotificationArrives)

SpecWatch == Init /\ [][WatchNext]_vars

\* the callbacks of the watch() calls whose unsubscribe was never invoked
StillSubscribed ==
  LET calls == [i \in 1..Len(handles) |-> i]
      kept == SelectSeq(calls, LAMBDA i : i \notin unsubscribed)
  IN [j \in 1..Len(kept) |-> handles[kept[j]]]

\* C10 as stated: an unsubscribe removes the registration of its own watch()
\* call, once; the watcher collection is always the callbacks of the watch()
\* calls not unsubscribed, in the order they were made.
C10_UnsubscribeRemovesOwnOnly == watchers = StillSubscribed

\* ------------------------------------ the life of one client: SpecClient
\* what the windows around the client post to it
LifeInputs ==
  { Text(EVENT_READY), Text(EVENT_UNAVAILABLE), Text(EVENT_POLL),
    ChangeMessage("x"), Text("hello"),
    JSONstringify([id |-> Str(RequestId(1)), method |-> Str("get"),
                   result |-> Str("v")]) }

LifeReceive ==
  \E mo \in ClientSenderOrigins, data \in LifeInputs :
    ClientOnMessage(mo, data)

ConnectTimerFires == \E c \in connectTimers : ConnectTimeout(c)

GetRequested == ClientRequest("get", [key |-> Str("x")])

WatchRegistered == Len(handles) < 1 /\ ClientWatch("f")

ClientNext ==
  \/ ClientAlone(ClientConnect)
  \/ ClientAlone(ConnectTimerFires)
  \/ ClientAlone(PollTick)
  \/ ClientAlone(LifeReceive)
  \/ ClientAlone(GetRequested)
  \/ ClientAlone(RequestTimerFires)
  \/ ClientAlone(WatchRegistered)
  \/ ClientAlone(ClientClose)

SpecClient == RequestsInit /\ [][ClientNext]_vars

\* C11 as stated: close() takes the frame out of the document only when the
\* client created it; a frame found by its id stays as it was; either way the
\* listener is detached and the client is closed.
C11_CloseRemovesOnlyOwnFrame ==
  [][ ClientClose =>
        /\ frameInDom' = (frameInDom /\ ~frameOwn)
        /\ ~listenerOn'
        /\ closed' ]_vars

\* the resolve calls among the calls made on one promise
Resolved(log) == SelectSeq(log, LAMBDA e : e.how = "resolve")

\* the calls a Response made on the promise of one request
Answered(log) == SelectSeq(log, LAMBDA e : e.by = "response")

\* the step called a watcher
WatcherCalled ==
  /\ clientLast' # clientLast
  /\ \E i \in 1..Len(clientLast'.calls) : clientLast'.calls[i].fn = "watcher"

\* C12: a client is never connected and closed at once, and once it is closed
\* no step makes it connected or not closed, resolves a connect() caller,
\* calls a watcher or settles a request with a Response.
C12_ClosedIsTerminal ==
  /\ [](~(connected /\ closed))
  /\ [][ closed =>
           /\ closed'
           /\ ~connected'
           /\ \A c \in 1..Len(connectLog') :
                Resolved(connectLog'[c]) =
                  IF c <= Len(connectLog) THEN Resolved(connectLog[c])
                  ELSE <<>>
           /\ \A id \in DOMAIN settled' :
                Answered(settled'[id]) =
                  IF id \in DOMAIN settled THEN Answered(settled[id])
                  ELSE <<>>
           /\ ~WatcherCalled ]_vars

\* C12 witness: connect() was called on a closed client that still has a
\* pending request and a watcher
C12_Witness ==
  /\ closed
  /\ clientLast.op = "connect"
  /\ clientLast.outcome = "closed"
  /\ DOMAIN requests # {}
  /\ watchers # <<>>

\* the step ran _onListener on this text, sent from the hub's origin
HubSays(text) ==
  /\ clientLast'.op = "message"
  /\ clientLast'.data = Text(text)
  /\ NormOrigin(clientLast'.origin) = thisOrigin

\* the step is a connect() call
ConnectStep == connectCalls' = connectCalls + 1

\* the connect() callers whose promise is not settled yet
PendingCallers == {c \in 1..Len(connectLog) : connectLog[c] = <<>>}

\* C13: the unavailable signal from the hub's origin closes a client that is
\* not closed and rejects every pending connect() caller with the unavailable
\* error; connect() and storage operations called on the closed client are
\* rejected.
C13_UnavailableIsTerminal ==
  [][ /\ (HubSays(EVENT_UNAVAILABLE) /\ ~closed)
         => /\ closed'
            /\ ~connected'
            /\ \A c \in PendingCallers :
                 connectLog'[c] =
                   <<Settle("reject", "unavailable", UnavailableError)>>
      /\ (closed /\ ConnectStep)
         => /\ connectLog'[connectCalls'] # <<>>
            /\ connectLog'[connectCalls'][1].how = "reject"
      /\ (closed /\ RequestStep)
         => /\ clientLast'.calls # <<>>
            /\ clientLast'.calls[1].how = "reject" ]_vars

\* C13 witness: the signal came while two connect() callers were waiting
C13_Witness ==
  /\ clientLast.op = "message"
  /\ clientLast.outcome = "unavailable"
  /\ Len(clientLast.calls) = 2
  /\ closed

\* C13 witness: the signal came to a connected client with a request pending
C13_ConnectedWitness ==
  /\ clientLast.op = "message"
  /\ clientLast.outcome = "unavailable"
  /\ DOMAIN requests # {}
  /\ closed

ReservedPrefix == "cross-storage:"

\* the step ran _onListener on a text with the reserved prefix, other than
\* the unavailable signal, sent from the hub's origin
HandshakeStep ==
  /\ clientLast'.op = "message"
  /\ clientLast'.data.kind = "text"
  /\ Len(clientLast'.data.text) >= Len(ReservedPrefix)
  /\ SubSeq(clientLast'.data.text, 1, Len(ReservedPrefix)) = ReservedPrefix
  /\ clientLast'.data # Text(EVENT_UNAVAILABLE)
  /\ NormOrigin(clientLast'.origin) = thisOrigin

\* C14: one handshake serves every connect() call: the first prefixed message
\* from the hub's origin makes a client that is neither connected nor closed
\* connected, resolves every pending connect() caller and empties the queue;
\* a connect() call posts nothing and leaves the polling as it is, and on a
\* connected client it resolves at once.
C14_OneHandshakeServesAll ==
  [][ /\ (HandshakeStep /\ ~connected /\ ~closed)
         => /\ connected'
            /\ connects' = <<>>
            /\ connectTimers' = {}
            /\ \A c \in PendingCallers :
                 connectLog'[c] = <<Settle("resolve", "connected", Undefined)>>
      /\ ConnectStep
         => /\ polling' = polling
            /\ clientLast'.sent = <<>>
            /\ connected
                 => connectLog'[connectCalls'] =
                      <<Settle("resolve", "immediate", Undefined)>> ]_vars

\* C14 witness: a change notification was the first prefixed message and it
\* resolved two waiting connect() callers
C14_Witness ==
  /\ connected
  /\ clientLast.op = "message"
  /\ clientLast.data = ChangeMessage("x")
  /\ Len(connectLog) = 2
  /\ \A c \in 1..Len(connectLog) :
       connectLog[c] = <<Settle("resolve", "connected", Undefined)>>

\* the step ran _onListener on a message
ListenerRan == clientLast'.op = "message"

\* the step changed nothing of the client's protocol state and called nothing
Ignored ==
  /\ connected' = connected
  /\ closed' = closed
  /\ connects' = connects
  /\ connectLog' = connectLog
  /\ requests' = requests
  /\ settled' = settled
  /\ watchers' = watchers
  /\ clientLast'.calls = <<>>

\* C15 as stated: a message whose reported sender origin is not the very
\* string of the hub's origin is ignored.
C15_ForeignOriginIgnored ==
  [][ (ListenerRan /\ clientLast'.origin # thisOrigin) => Ignored ]_vars

\* the reported sender origin stands for the hub's origin: the same string,
\* or the literal "null" when the hub's origin is file://
FromHub(mo) == mo = thisOrigin \/ (mo = "null" /\ thisOrigin = "file://")

\* C15: a message whose sender origin, with the transport's literal "null"
\* read as file://, is not the hub's origin is ignored: no state of the
\* connection, the queues or the watchers changes and no callback is called.
C15_ForeignOriginIgnoredAfterNorm ==
  [][ (ListenerRan /\ ~FromHub(clientLast'.origin)) => Ignored ]_vars

\* C15 witness: a Response with the id of a pending request came from another
\* origin and the request is still pending
C15_Witness ==
  /\ clientLast.op = "message"
  /\ clientLast.origin = OriginA
  /\ clientLast.outcome = "ignored"
  /\ clientLast.data.kind = "json"
  /\ Prop(clientLast.data.val, "id") = Str(RequestId(1))
  /\ RequestId(1) \in DOMAIN requests
  /\ ~closed

\* the target origin a reply to this sender has to carry
ReplyTarget(mo) == IF mo = "null" THEN "*" ELSE mo

\* C16 as stated: a poll signal is answered with a ready signal, and every
\* reply of _onListener is addressed to the sender's origin, with the wildcard
\* in place of the literal "null".
C16_RepliesAddressedToSender ==
  hubLast.ev = "message"
    => /\ \A i \in 1..Len(hubLast.sent) :
            hubLast.sent[i].target = ReplyTarget(hubLast.origin)
       /\ hubLast.data = Text(EVENT_POLL)
            => hubLast.sent =
                 <<Posted(Text(EVENT_READY), ReplyTarget(hubLast.origin))>>

\* C17 as stated: a client that is neither connected nor closed has its poll
\* interval running, however it got its frame; a tick posts the poll signal
\* to the hub's window exactly while the client is neither connected nor
\* closed.
C17_PollsUntilReady ==
  /\ (~connected /\ ~closed) => polling
  /\ clientLast.op = "poll"
       => (clientLast.sent =
             <<Posted(Text(EVENT_POLL), TargetOrigin(thisOrigin))>>
           <=> (~connected /\ ~closed))

\* ----------------------- timers that do fire: SpecSettle
SettleInputs ==
  { Text(EVENT_READY), Text(EVENT_UNAVAILABLE),
    JSONstringify([id |-> Str(RequestId(1)), method |-> Str("get"),
                   result |-> Str("v")]) }

HubAnswers == \E data \in SettleInputs : ClientOnMessage(thisOrigin, data)

SettleNext ==
  \/ ClientAlone(ClientConnect)
  \/ ClientAlone(ConnectTimerFires)
  \/ ClientAlone(HubAnswers)
  \/ ClientAlone(GetRequested)
  \/ ClientAlone(RequestTimerFires)
  \/ ClientAlone(ClientClose)

\* setTimeout callbacks run: a pending timer does not wait for ever
SpecSettle ==
  /\ Init
  /\ [][SettleNext]_vars
  /\ WF_vars(ClientAlone(ConnectTimerFires))
  /\ WF_vars(ClientAlone(RequestTimerFires))

\* C18: every connect() future and every accepted request is settled in the
\* end, by the connection, the unavailable signal, a Response or its timer,
\* also after close() and when the hub stays silent; a request's promise gets
\* one call only, and the first call made on a connect() promise stays.
C18_EveryFutureSettles ==
  /\ \A c \in 1..MaxConnects :
       (Len(connectLog) >= c)
         ~> (Len(connectLog) >= c /\ connectLog[c] # <<>>)
  /\ \A n \in 1..MaxRequests :
       (RequestId(n) \in DOMAIN settled)
         ~> (RequestId(n) \in DOMAIN settled /\ settled[RequestId(n)] # <<>>)
  /\ [](\A id \in DOMAIN settled : Len(settled[id]) <= 1)
  /\ [][\A c \in 1..Len(connectLog) :
          connectLog[c] # <<>> =>
            /\ connectLog'[c] # <<>>
            /\ connectLog'[c][1] = connectLog[c][1]]_vars

\* C18 witness: after close() a request and a connect() call were both
\* settled by their timers
C18_Witness ==
  /\ closed
  /\ \E id \in DOMAIN settled :
       settled[id] # <<>> /\ settled[id][1].by = "timeout"
  /\ \E c \in 1..Len(connectLog) :
       connectLog[c] # <<>> /\ connectLog[c][1].by = "timeout"

\* ------------------------------------------------ the hub on its own: SpecHub
HubReceive ==
  \E mo \in SenderOrigins, data \in HubInputs :
    \E fault \in FaultsFor(data) : HubOnMessage(mo, data, fault)

HubStart == \E perms \in RuleLists : HubInit(perms, WatchOff)

OtherDocument ==
  \/ \E k \in EventKeys, v \in {"1", "2"} : OtherSetItem(k, v)
  \/ \E k \in EventKeys : OtherRemoveItem(k)
  \/ OtherClear
  \/ \E k \in EventKeys : OtherAreaChange(k)

\* a step of the hub while the client and the channels stand still
HubAlone(A) == A /\ UNCHANGED <<clientVars, chanVars>>

HubNext ==
  \/ HubAlone(HubStart)
  \/ HubAlone(HubReceive)


HubOnlyInit ==
  /\ HubInitState
  /\ ClientConstructed(HubOrigin, TRUE)
  /\ NoTraffic

SpecHub == HubOnlyInit /\ [][HubNext]_vars

\* --------------- a hub with or without a usable storage engine: SpecInert
InertInputs ==
  { Text(EVENT_POLL),
    JSONstringify([id |-> Str("c1:1"), method |-> Str("set"),
                   key |-> Str("x"), value |-> Str("1")]),
    JSONstringify([id |-> Str("c1:2"), method |-> Str("get"),
                   key |-> Str("x")]) }

HubStartsAnyWatch ==
  \E perms \in RoundTripRuleLists, keys \in WatchOptions : HubInit(perms, keys)

HubGets == \E data \in InertInputs : HubOnMessage(OriginA, data, NoFault)

StorageChanges ==
  \/ OtherSetItem("x", "1")
  \/ OtherRemoveItem("x")
  \/ OtherClear
  \/ OtherAreaChange("x")

InertNext ==
  \/ HubAlone(HubStartsAnyWatch)
  \/ HubAlone(HubGets)
  \/ HubAlone(StorageChanges)

SpecInert == HubOnlyInit /\ [][InertNext]_vars

FaultInputs ==
  { JSONstringify([id |-> Str("c1:1"), method |-> Str("set"),
                   key |-> Str("x"), value |-> Str("1")]),
    JSONstringify([id |-> Str("c1:2"), method |-> Str("get"),
                   key |-> Str("x")]),
    JSONstringify([id |-> Str("c1:3"), method |-> Str("del"),
                   key |-> Str("x")]),
    JSONstringify([id |-> Str("c1:4"), method |-> Str("getKeys")]) }

HubStartsOneRule ==
  \E perms \in {p \in RuleLists : Len(p) = 1} : HubInit(perms, WatchOff)

\* any call into the engine may throw, not only setItem
HubServes ==
  \E mo \in {OriginA, OriginB}, data \in FaultInputs :
    \E fault \in {NoFault} \cup FaultMessages : HubOnMessage(mo, data, fault)

FaultNext ==
  \/ HubAlone(HubStartsOneRule)
  \/ HubAlone(HubServes)

SpecFaults == HubOnlyInit /\ [][FaultNext]_vars

\* the storage engine threw while the hub ran a permitted request
EngineThrew ==
  /\ HandledAction
  /\ hubLast.fault # NoFault
  /\ SomeRuleGrants(LastOrigin, LastMethod)

\* C20: when the storage engine throws during a permitted request the hub
\* posts one Response with the request's id whose error is the exception's
\* message and whose result is null, nothing is thrown out of _onListener and
\* the storage is as before; the hub stays registered with its permissions and
\* the next permitted request is executed and answered as usual.
C20_EngineFaultBecomesErrorResponse ==
  /\ [](EngineThrew =>
          /\ Len(hubLast.sent) = 1
          /\ Prop(hubLast.sent[1].data.val, "id") = Prop(LastRequest, "id")
          /\ Prop(hubLast.sent[1].data.val, "error") = Str(hubLast.fault)
          /\ Prop(hubLast.sent[1].data.val, "result") = Null
          /\ ~hubLast.threw
          /\ storage = hubLast.before)
  /\ [][EngineThrew =>
          /\ listening'
          /\ permissions' = permissions
          /\ C3_PermittedExecutes']_vars

\* C20 witness: a permitted set met a full storage and was answered
C20_Witness ==
  /\ EngineThrew
  /\ LastMethod = "set"
  /\ hubLast.fault = "QuotaExceededError"
  /\ Len(hubLast.sent) = 1
  /\ CarriesError(hubLast.sent[1])

\* ------------------------------ watchers that act while called: SpecDispatch
\* what the body of a watcher may do
Acts ==
  {Idle}
  \cup {CallsUnsubscribe(h) : h \in 1..MaxWatch}
  \cup {CallsWatch(cb) : cb \in Callbacks}

ChangeArrives ==
  \E data \in {ChangeMessage("x"), ChangeMessage("*")},
     acts \in [Callbacks -> Acts] :
    ClientHandles(HubOrigin, data, acts)

DispatchNext ==
  \/ ClientAlone(Watches)
  \/ ClientAlone(Unsubscribes)
  \/ ClientAlone(ChangeArrives)

SpecDispatch == Init /\ [][DispatchNext]_vars

\* the step ran _onListener on a change notification it did not ignore
ChangeHandled ==
  /\ clientLast'.op = "message"
  /\ clientLast'.outcome = "handled"
  /\ StartsWith(clientLast'.data, EVENT_CHANGE \o ":")

\* C21 as stated: on a change notification every watcher registered when it
\* arrives is called once with the decoded key, in registration order,
\* whatever the watchers do to the collection while they are called.
C21_EveryWatcherOnceInOrder ==
  [][ ChangeHandled =>
        WatcherCalls' =
          [i \in 1..Len(watchers) |->
             Call("watcher", watchers[i], "call",
                  ChangeKey(clientLast'.data))] ]_vars

====
